---- MODULE Spec2Model ----
(***************************************************************************)
(* A model of the CFG finalisation passes of cfg/builder/builder_finalize.cc *)
(* (simplify, sanityCheck, markLoopHeaders, fillInBlockArguments,          *)
(* topoSortFwd, topoSortBwd).  Blocks are identified by their id; every    *)
(* BasicBlock* of the source is a block id here.                           *)
(***************************************************************************)
EXTENDS Integers, Sequences, FiniteSets, TLC

\* ------------------------------------------------------------------ bounds
\* Number of basic blocks of an input CFG (ids 0 .. NumBlocks-1).
NumBlocks == 4
\* How many unconditional jumps of an input CFG may be recorded twice in the
\* back-edge list of their target (backEdges is a multiset on input).
MaxDup == 1
\* How many blocks of an input CFG may carry the blockCall exit condition.
MaxHeaders == 1
\* The deepest loop nesting (outerLoops) of a block of an input CFG.
MaxLoops == 1

\* -------------------------------------------------------------- the CFG
\* cfg.entry() and cfg.deadBlock(): the first two blocks of every CFG.
entry == 0
deadBlock == 1

BlockIds == 0 .. (NumBlocks - 1)
NonDead == BlockIds \ {deadBlock}

\* LocalVariable, by name id.  0 is the variable that does not exist
\* (bexit.cond.exists() is false), blockCall the name of a block header's
\* exit condition.
NoVariable == 0
blockCall == 1
\* The exit condition of a block that is no block header.
plainCond == 2

VARIABLES
    basicBlocks,        \* cfg.basicBlocks: the owned blocks, in order
    thenb, elseb, cond, \* bexit of every block
    exprs,              \* the bindings of every block
    backEdges,          \* the predecessor list of every block
    outerLoops,         \* loop depth of every block
    flags,              \* flag set of every block
    args,               \* block arguments
    forwardsTopoSort,
    backwardsTopoSort,
    reads, writes,      \* CFG::ReadsAndWrites
    reads_by_block, writes_by_block,    \* fillInBlockArguments: its scratch
    upper_bounds1, upper_bounds2,       \* arrays, indexed by block id
    pc,                 \* where the pass under check stands
    it,                 \* simplify: index of the iterator into basicBlocks
    changed,            \* simplify: the changed flag
    removed,            \* history: the blocks simplify has erased
    last,               \* history: what the previous step did
    applied,            \* history: the rules simplify has applied so far
    tick,               \* history: parity of the loop bodies simplify has run
    nFwd, nBwd,         \* what topoSortFwd and topoSortBwd returned
    bwdStart,           \* the block topoSortBwd is started at
    minLoops, maxLoopWrite,     \* cfg.minLoops, cfg.maxLoopWrite
    outAliases,         \* dealias: its scratch array, indexed by block id
    seeds,              \* history: current of every block before its bindings
    lookups             \* history: the maps maybeDealias was called with

vars == <<basicBlocks, thenb, elseb, cond, exprs, backEdges, outerLoops, flags,
          args, forwardsTopoSort, backwardsTopoSort, reads, writes, reads_by_block, writes_by_block,
         upper_bounds1, upper_bounds2, pc, it,
          changed, removed, last, applied, tick, nFwd, nBwd, bwdStart,
          minLoops, maxLoopWrite, outAliases,
                seeds, lookups>>

\* ------------------------------------------------------- sequence helpers
Range(s) == {s[i] : i \in DOMAIN s}

\* v.erase(std::remove(v.begin(), v.end(), x), v.end())
EraseRemove(s, x) == SelectSeq(s, LAMBDA e : e /= x)

\* std::find(v.begin(), v.end(), x) != v.end()
Found(s, x) == \E i \in DOMAIN s : s[i] = x

\* v.erase(it): the sequence without its element at index i
EraseAt(s, i) == SubSeq(s, 1, i - 1) \o SubSeq(s, i + 1, Len(s))

RECURSIVE InsertById(_, _)
InsertById(s, x) ==
    IF s = <<>> THEN <<x>>
    ELSE IF x < Head(s) THEN <<x>> \o s
    ELSE <<Head(s)>> \o InsertById(Tail(s), x)

\* std::sort of block pointers by id
RECURSIVE SortById(_)
SortById(s) == IF s = <<>> THEN <<>> ELSE InsertById(SortById(Tail(s)), Head(s))

\* v.erase(std::unique(v.begin(), v.end()), v.end()): adjacent duplicates go
RECURSIVE Unique(_)
Unique(s) ==
    IF Len(s) <= 1 THEN s
    ELSE IF s[1] = s[2] THEN Unique(Tail(s))
    ELSE <<s[1]>> \o Unique(Tail(s))

\* (mutant: the back edges are sorted and their duplicates are kept)
SortedOnly(s) == SortById(s)

\* R2: sort bb->backEdges by id, then unique
Canonical(s) == Unique(SortById(s))

\* ------------------------------------------------------------ bindings
\* A Binding (bind, value): the bound variable, the variant of the value
\* instruction and its operand variables (Ident: what; Send: recv, args;
\* Return: what).  A value of "null" is a moved-from unique_ptr.
Binding(v, t, o) == [bind |-> v, type |-> t, ops |-> o]

\* std::make_move_iterator over a block's bindings leaves the source vector
\* at its length with every value moved out
MovedFrom(s) == [i \in DOMAIN s |-> Binding(s[i].bind, "null", <<>>)]

\* ------------------------------------------------------ input of simplify
\* The binding an input block with bindings holds: a literal bound to a
\* variable of the block's own.
OwnBinding(b) == Binding(plainCond + 1 + b, "IntLit", <<>>)

\* The back-edge list a CFG builder leaves at block b for successor maps t
\* and e: one entry per jump into b, in the order the jumps were made (here
\* from the highest predecessor id down); the blocks in dup were linked by a
\* conditional jump with equal targets, which pushes the source twice.
RECURSIVE JumpsInto(_, _, _, _, _)
JumpsInto(b, t, e, dup, p) ==
    IF p < 0 THEN <<>>
    ELSE (IF p /= deadBlock /\ (t[p] = b \/ e[p] = b)
          THEN (IF p \in dup THEN <<p, p>> ELSE <<p>>)
          ELSE <<>>) \o JumpsInto(b, t, e, dup, p - 1)

RECURSIVE Ascending(_, _)
Ascending(lo, hi) == IF lo > hi THEN <<>> ELSE <<lo>> \o Ascending(lo + 1, hi)

EmptyTable == [x \in {} |-> {}]

\* Outside fillInBlockArguments its scratch arrays do not exist
NoScratch ==
    /\ reads_by_block = <<>>
    /\ writes_by_block = <<>>
    /\ upper_bounds1 = <<>>
    /\ upper_bounds2 = <<>>

\* A CFG is constructed with empty minLoops and maxLoopWrite; outside dealias
\* its scratch array does not exist
NoAnalysis ==
    /\ minLoops = EmptyTable
    /\ maxLoopWrite = EmptyTable
    /\ outAliases = <<>>
    /\ seeds = <<>>
    /\ lookups = {}

InitSimplify ==
    \E t \in [NonDead -> BlockIds], e \in [NonDead -> BlockIds], full \in SUBSET NonDead :
    \E hdr \in SUBSET (NonDead \ full), dup \in SUBSET {p \in NonDead : t[p] = e[p]} :
        /\ Cardinality(hdr) <= MaxHeaders
        /\ Cardinality(dup) <= MaxDup
        /\ basicBlocks = Ascending(0, NumBlocks - 1)
        /\ thenb = [b \in BlockIds |-> IF b = deadBlock THEN deadBlock ELSE t[b]]
        /\ elseb = [b \in BlockIds |-> IF b = deadBlock THEN deadBlock ELSE e[b]]
        /\ cond = [b \in BlockIds |->
                     IF b = deadBlock THEN NoVariable
                     ELSE IF b \in hdr THEN blockCall ELSE plainCond]
        /\ exprs = [b \in BlockIds |-> IF b \in full THEN <<OwnBinding(b)>> ELSE <<>>]
        /\ backEdges = [b \in BlockIds |->
                          JumpsInto(b, thenb, elseb, dup, NumBlocks - 1)]
        /\ outerLoops = [b \in BlockIds |-> 0]
        /\ flags = [b \in BlockIds |-> {}]
        /\ args = [b \in BlockIds |-> <<>>]
        /\ forwardsTopoSort = Ascending(0, NumBlocks - 1)
        /\ backwardsTopoSort = Ascending(0, NumBlocks - 1)
        /\ reads = EmptyTable
        /\ writes = EmptyTable
        /\ NoScratch
        /\ NoAnalysis
        /\ pc = "simplify"
        /\ it = 1
        /\ changed = FALSE
        /\ removed = {}
        /\ last = "entry"
        /\ applied = {}
        /\ tick = FALSE
        /\ nFwd = NumBlocks
        /\ nBwd = NumBlocks
        /\ bwdStart = deadBlock

\* --------------------------------------------------------------- simplify
\* What simplify leaves alone
SimplifyFrame ==
    UNCHANGED <<outerLoops, flags, args, reads, writes, nFwd, nBwd, bwdStart,
                reads_by_block, writes_by_block, upper_bounds1, upper_bounds2,
                minLoops, maxLoopWrite, outAliases,
                seeds, lookups>>

\* The block the iterator points at, and its exits as captured at the top of
\* the loop body
CurBB == basicBlocks[it]
InLoop == pc = "simplify" /\ it <= Len(basicBlocks)
\* (mutant: the entry block is not exempted from pruning)
PrunableNotEntry(bb) == bb /= deadBlock
Prunable(bb) == bb /= deadBlock /\ bb /= entry

\* backEdges after the else branch of the first test: sorted and uniqued for a
\* block that is neither entry nor deadBlock
AfterR2(bb) ==
    IF Prunable(bb) THEN [backEdges EXCEPT ![bb] = Canonical(@)] ELSE backEdges

\* bb->bexit.thenb->backEdges.push_back(bb), and the same for elseb when it
\* differs
Reparent(be, bb, nt, ne) ==
    LET be1 == [be EXCEPT ![nt] = Append(@, bb)]
    IN  IF nt /= ne THEN [be1 EXCEPT ![ne] = Append(@, bb)] ELSE be1

\* The conditions of the rules, on the exits captured for bb
CanSquash(bb) ==
    thenb[bb] = elseb[bb] /\ thenb[bb] /= deadBlock /\ thenb[bb] /= bb
R1Applies(bb) == Prunable(bb) /\ backEdges[bb] = <<>>
R3aApplies(bb) ==
    /\ ~R1Applies(bb)
    /\ CanSquash(bb)
    /\ Len(AfterR2(bb)[thenb[bb]]) = 1
R3bApplies(bb) ==
    /\ ~R1Applies(bb)
    /\ CanSquash(bb)
    /\ Len(AfterR2(bb)[thenb[bb]]) /= 1
    /\ cond[thenb[bb]] /= blockCall
    /\ exprs[thenb[bb]] = <<>>
R4Applies(bb) ==
    /\ ~R1Applies(bb) /\ ~R3aApplies(bb) /\ ~R3bApplies(bb)
    /\ thenb[bb] /= deadBlock
    /\ exprs[thenb[bb]] = <<>>
    /\ thenb[thenb[bb]] = elseb[thenb[bb]]
    /\ thenb[bb] /= thenb[thenb[bb]]
\* (mutant: the else shortcut tests the then exit once more)
R5AppliesOnThen(bb) ==
    /\ ~R1Applies(bb) /\ ~R3aApplies(bb) /\ ~R3bApplies(bb) /\ ~R4Applies(bb)
    /\ thenb[bb] /= deadBlock
    /\ exprs[thenb[bb]] = <<>>
    /\ thenb[thenb[bb]] = elseb[thenb[bb]]
    /\ elseb[bb] /= elseb[thenb[bb]]
R5Applies(bb) ==
    /\ ~R1Applies(bb) /\ ~R3aApplies(bb) /\ ~R3bApplies(bb) /\ ~R4Applies(bb)
    /\ elseb[bb] /= deadBlock
    /\ exprs[elseb[bb]] = <<>>
    /\ thenb[elseb[bb]] = elseb[elseb[bb]]
    /\ elseb[bb] /= elseb[elseb[bb]]

\* remove non reachable
SimplifyR1 ==
    /\ InLoop
    /\ R1Applies(CurBB)
    /\ LET bb == CurBB
           th == thenb[bb]
           el == elseb[bb]
           be1 == [backEdges EXCEPT ![th] = EraseRemove(@, bb)]
       IN  /\ backEdges' = IF el /= th THEN [be1 EXCEPT ![el] = EraseRemove(@, bb)]
                           ELSE be1
           /\ basicBlocks' = EraseAt(basicBlocks, it)
           /\ forwardsTopoSort' = EraseRemove(forwardsTopoSort, bb)
           /\ backwardsTopoSort' = EraseRemove(backwardsTopoSort, bb)
           /\ removed' = removed \cup {bb}
    /\ changed' = TRUE
    /\ last' = "R1"
    /\ applied' = applied \cup {"R1"}
    /\ tick' = ~tick
    /\ UNCHANGED <<thenb, elseb, cond, exprs, pc, it>>
    /\ SimplifyFrame

\* squash bb with its only successor, which has no other predecessor
SimplifyR3a ==
    /\ InLoop
    /\ R3aApplies(CurBB)
    /\ LET bb == CurBB
           th == thenb[bb]
           be1 == [AfterR2(bb) EXCEPT ![th] = <<>>]
       IN  /\ exprs' = [exprs EXCEPT ![bb] = @ \o exprs[th], ![th] = MovedFrom(@)]
           /\ thenb' = [thenb EXCEPT ![bb] = thenb[th]]
           /\ elseb' = [elseb EXCEPT ![bb] = elseb[th]]
           /\ cond' = [cond EXCEPT ![bb] = cond[th]]
           /\ backEdges' = Reparent(be1, bb, thenb[th], elseb[th])
    /\ changed' = TRUE
    /\ last' = "R3a"
    /\ applied' = applied \cup {"R3a"}
    /\ tick' = ~tick
    /\ UNCHANGED <<basicBlocks, forwardsTopoSort, backwardsTopoSort, pc, it, removed>>
    /\ SimplifyFrame

\* jump over an empty successor that is no block header
SimplifyR3b ==
    /\ InLoop
    /\ R3bApplies(CurBB)
    /\ LET bb == CurBB
           th == thenb[bb]
           be1 == [AfterR2(bb) EXCEPT ![th] = EraseRemove(@, bb)]
       IN  /\ thenb' = [thenb EXCEPT ![bb] = thenb[th]]
           /\ elseb' = [elseb EXCEPT ![bb] = elseb[th]]
           /\ cond' = [cond EXCEPT ![bb] = cond[th]]
           /\ backEdges' = Reparent(be1, bb, thenb[th], elseb[th])
    /\ changed' = TRUE
    /\ last' = "R3b"
    /\ applied' = applied \cup {"R3b"}
    /\ tick' = ~tick
    /\ UNCHANGED <<basicBlocks, exprs, forwardsTopoSort, backwardsTopoSort, pc, it,
                   removed>>
    /\ SimplifyFrame

\* shortcut then
SimplifyR4 ==
    /\ InLoop
    /\ R4Applies(CurBB)
    /\ LET bb == CurBB
           th == thenb[bb]
           nt == thenb[th]
           be1 == [AfterR2(bb) EXCEPT ![nt] = Append(@, bb)]
       IN  /\ thenb' = [thenb EXCEPT ![bb] = nt]
           /\ backEdges' = [be1 EXCEPT ![th] = EraseRemove(@, bb)]
    /\ changed' = TRUE
    /\ last' = "R4"
    /\ applied' = applied \cup {"R4"}
    /\ tick' = ~tick
    /\ UNCHANGED <<basicBlocks, elseb, cond, exprs, forwardsTopoSort,
                   backwardsTopoSort, pc, it, removed>>
    /\ SimplifyFrame

\* shortcut else
SimplifyR5 ==
    /\ InLoop
    /\ R5Applies(CurBB)
    /\ LET bb == CurBB
           el == elseb[bb]
           ne == elseb[el]
           be1 == [AfterR2(bb) EXCEPT ![ne] = Append(@, bb)]
       IN  /\ elseb' = [elseb EXCEPT ![bb] = ne]
           /\ backEdges' = [be1 EXCEPT ![el] = EraseRemove(@, bb)]
    /\ changed' = TRUE
    /\ last' = "R5"
    /\ applied' = applied \cup {"R5"}
    /\ tick' = ~tick
    /\ UNCHANGED <<basicBlocks, thenb, cond, exprs, forwardsTopoSort,
                   backwardsTopoSort, pc, it, removed>>
    /\ SimplifyFrame

\* no rule applies to the block: ++it
SimplifyAdvance ==
    /\ InLoop
    /\ LET bb == CurBB
       IN  /\ ~R1Applies(bb) /\ ~R3aApplies(bb) /\ ~R3bApplies(bb)
           /\ ~R4Applies(bb) /\ ~R5Applies(bb)
           /\ backEdges' = AfterR2(bb)
    /\ it' = it + 1
    /\ last' = "advance"
    /\ tick' = ~tick
    /\ UNCHANGED applied
    /\ UNCHANGED <<basicBlocks, thenb, elseb, cond, exprs, forwardsTopoSort,
                   backwardsTopoSort, pc, changed, removed>>
    /\ SimplifyFrame

\* the for loop is through and changed is set: while (changed) goes round
SimplifyAgain ==
    /\ pc = "simplify"
    /\ it > Len(basicBlocks)
    /\ changed
    /\ changed' = FALSE
    /\ it' = 1
    /\ last' = "again"
    /\ UNCHANGED <<applied, tick>>
    /\ UNCHANGED <<basicBlocks, thenb, elseb, cond, exprs, backEdges,
                   forwardsTopoSort, backwardsTopoSort, pc, removed>>
    /\ SimplifyFrame

\* the for loop is through and nothing changed: simplify returns
SimplifyReturn ==
    /\ pc = "simplify"
    /\ it > Len(basicBlocks)
    /\ ~changed
    /\ pc' = "simplified"
    /\ last' = "return"
    /\ UNCHANGED <<applied, tick>>
    /\ UNCHANGED <<basicBlocks, thenb, elseb, cond, exprs, backEdges,
                   forwardsTopoSort, backwardsTopoSort, it, changed, removed>>
    /\ SimplifyFrame

NextSimplify ==
    \/ SimplifyR1
    \/ SimplifyR3a
    \/ SimplifyR3b
    \/ SimplifyR4
    \/ SimplifyR5
    \/ SimplifyAdvance
    \/ SimplifyAgain
    \/ SimplifyReturn

SpecSimplify == InitSimplify /\ [][NextSimplify]_vars

\* simplify runs to its end: the program is single-threaded and never waits
FairSimplify == SpecSimplify /\ WF_vars(NextSimplify)

\* ------------------------------------------------------------ sanityCheck
\* The two ENFORCEs on parents and the two on the exits, over cfg.basicBlocks,
\* with be the back-edge lists at the time of the call
SanityCheckPasses(be) ==
    \A i \in DOMAIN basicBlocks :
        LET bb == basicBlocks[i]
        IN  /\ \A k \in DOMAIN be[bb] :
                   thenb[be[bb][k]] = bb \/ elseb[be[bb][k]] = bb
            /\ bb /= deadBlock =>
                   /\ Found(be[thenb[bb]], bb)
                   /\ Found(be[elseb[bb]], bb)

\* The state is one in which simplify has just called sanityCheck
AtSanityCheck == pc = "simplify" /\ last \in {"entry", "R1", "R3a", "R3b", "R4", "R5"}

\* C1: back-edge consistency holds wherever simplify calls sanityCheck (on
\* entry, after each application of R1, R3a, R3b, R4, R5, and before the else
\* shortcut is made) and when simplify returns.
C1_BackEdgeConsistency ==
    /\ AtSanityCheck => SanityCheckPasses(backEdges)
    /\ (InLoop /\ R5Applies(CurBB)) => SanityCheckPasses(AfterR2(CurBB))
    /\ pc = "simplified" => SanityCheckPasses(backEdges)

\* C2: on every input CFG that satisfies the structural invariants the fixpoint
\* loop of simplify halts: simplify returns.
C2_SimplifyHalts == <>(pc = "simplified")

\* The blocks the CFG owns
Live == Range(basicBlocks)

\* The blocks reachable from the blocks of S along thenb and elseb edges
RECURSIVE ReachableFrom(_)
ReachableFrom(S) ==
    LET T == S \cup {thenb[b] : b \in S} \cup {elseb[b] : b \in S}
    IN  IF T = S THEN S ELSE ReachableFrom(T)

\* C3: when simplify returns, every block the CFG owns other than entry and
\* deadBlock is reachable from entry along thenb/elseb edges.
C3_NoUnreachableBlock ==
    pc = "simplified" => Live \ {entry, deadBlock} \subseteq ReachableFrom({entry})

\* b exits unconditionally to s, which has no other predecessor
MergeCandidate(b, s) ==
    /\ thenb[b] = s /\ elseb[b] = s
    /\ s /= deadBlock /\ s /= b
    /\ \A p \in Live \ {deadBlock} : (thenb[p] = s \/ elseb[p] = s) => p = b

\* C4: when simplify returns, no unconditional merge candidate remains.
C4_NoMergeCandidate ==
    pc = "simplified" => \A b \in Live, s \in Live : ~MergeCandidate(b, s)

\* s is an empty block that only passes control on to another block
PassThrough(s) ==
    s /= deadBlock /\ exprs[s] = <<>> /\ thenb[s] = elseb[s] /\ thenb[s] /= s

\* C5: when simplify returns, no block has an empty pass-through block as its
\* thenb or elseb, and an empty pass-through block has no predecessor left in
\* its backEdges.
C5_NoPassThroughSuccessor ==
    pc = "simplified" =>
        /\ \A b \in Live : ~PassThrough(thenb[b]) /\ ~PassThrough(elseb[b])
        /\ \A s \in Live : PassThrough(s) => backEdges[s] = <<>>

\* simplify has returned after both shortcuts were taken, and a block that
\* was an empty pass-through has been pruned
C5_Witness ==
    /\ pc = "simplified"
    /\ {"R4", "R5"} \subseteq applied
    /\ \E s \in removed : PassThrough(s)

\* C6: simplify never removes entry or deadBlock, and a removed block is
\* referenced nowhere afterwards: it is no remaining block's thenb or elseb,
\* in no remaining block's backEdges and in neither topo-sort.
C6_RemovedBlockUnreferenced ==
    /\ entry \notin removed /\ deadBlock \notin removed
    /\ removed \cap Live = {}
    /\ \A b \in removed :
        /\ \A l \in Live : thenb[l] /= b /\ elseb[l] /= b /\ ~Found(backEdges[l], b)
        /\ ~Found(forwardsTopoSort, b)
        /\ ~Found(backwardsTopoSort, b)

\* simplify has returned after erasing two blocks, one of them squashed into
\* its predecessor first
C6_Witness ==
    /\ pc = "simplified"
    /\ Cardinality(removed) >= 2
    /\ "R3a" \in applied

\* ------------------------------------------------------------- topo sorts
\* An entry of a resized vector<BasicBlock *> that nothing was written to
nullBlock == -1

\* A target vector of n entries, none written yet
FreshTarget(n) == [i \in 1 .. n |-> nullBlock]

\* The state a topo sort threads through its recursion: the target vector,
\* nextFree and the blocks whose VISITED flag is set
TopoState(n, visited) == [target |-> FreshTarget(n), nextFree |-> 0, visited |-> visited]

\* target[nextFree] = currentBB; nextFree + 1
Emit(st, bb) == [st EXCEPT !.target[st.nextFree + 1] = bb, !.nextFree = @ + 1]

\* (mutant: the block is written before its exits are followed)
RECURSIVE TopoSortFwdPreorder(_, _)
TopoSortFwdPreorder(st, currentBB) ==
    IF currentBB \in st.visited THEN st
    ELSE LET s1 == Emit([st EXCEPT !.visited = @ \cup {currentBB}], currentBB)
             s2 == TopoSortFwdPreorder(s1, thenb[currentBB])
         IN  TopoSortFwdPreorder(s2, elseb[currentBB])

\* (mutant: only the then exit is followed)
RECURSIVE TopoSortFwdThenOnly(_, _)
TopoSortFwdThenOnly(st, currentBB) ==
    IF currentBB \in st.visited THEN st
    ELSE LET s1 == [st EXCEPT !.visited = @ \cup {currentBB}]
             s2 == TopoSortFwdThenOnly(s1, thenb[currentBB])
         IN  Emit(s2, currentBB)

RECURSIVE TopoSortFwd(_, _)
TopoSortFwd(st, currentBB) ==
    IF currentBB \in st.visited THEN st
    ELSE LET s1 == [st EXCEPT !.visited = @ \cup {currentBB}]
             s2 == TopoSortFwd(s1, thenb[currentBB])
             s3 == TopoSortFwd(s2, elseb[currentBB])
         IN  Emit(s3, currentBB)

\* The number of leading back edges of bb whose block lies in an outer loop:
\* where the first while loop of topoSortBwd stops
RECURSIVE OuterPrefix(_, _)
OuterPrefix(bb, i) ==
    IF i < Len(backEdges[bb]) /\ outerLoops[bb] > outerLoops[backEdges[bb][i + 1]]
    THEN OuterPrefix(bb, i + 1)
    ELSE i

RECURSIVE TopoSortBwd(_, _)
RECURSIVE TopoSortBwdOver(_, _)
\* nextFree = topoSortBwd(target, nextFree, backEdges[i]) for each block of s
TopoSortBwdOver(st, s) ==
    IF s = <<>> THEN st ELSE TopoSortBwdOver(TopoSortBwd(st, Head(s)), Tail(s))

TopoSortBwd(st, currentBB) ==
    IF currentBB \in st.visited THEN st
    ELSE LET s1 == [st EXCEPT !.visited = @ \cup {currentBB}]
             be == backEdges[currentBB]
             i == OuterPrefix(currentBB, 0)
             s2 == TopoSortBwdOver(s1, SubSeq(be, 1, i))
         IN  IF i > 0
             THEN TopoSortBwdOver(Emit(s2, currentBB), SubSeq(be, i + 1, Len(be)))
             ELSE Emit(TopoSortBwdOver(s2, SubSeq(be, i + 1, Len(be))), currentBB)

\* (mutant: only the first back edge is looked at, as topoSortBwd does)
IsLoopHeaderByFirstEdge(bb) ==
    backEdges[bb] /= <<>> /\ outerLoops[backEdges[bb][1]] < outerLoops[bb]

\* bb->flags |= CFG::LOOP_HEADER for a block with a parent in an outer loop
IsLoopHeader(bb) ==
    \E k \in DOMAIN backEdges[bb] : outerLoops[backEdges[bb][k]] < outerLoops[bb]

VisitedFwd == {b \in BlockIds : "FORWARD_TOPO_SORT_VISITED" \in flags[b]}
VisitedBwd == {b \in BlockIds : "BACKWARD_TOPO_SORT_VISITED" \in flags[b]}

\* The back-edge list of b once simplify has sorted and uniqued it
RECURSIVE SortedParents(_, _, _, _)
SortedParents(b, t, e, p) ==
    IF p >= NumBlocks THEN <<>>
    ELSE (IF p /= deadBlock /\ (t[p] = b \/ e[p] = b) THEN <<p>> ELSE <<>>)
         \o SortedParents(b, t, e, p + 1)

\* Input of the topo sorts: a CFG whose back edges are sorted by id, every
\* block with bindings, at loop depths up to MaxLoops (deadBlock at depth 0),
\* no flag set; the backward sort starts at deadBlock or at entry
InitTopoSort ==
    \E t \in [NonDead -> BlockIds], e \in [NonDead -> BlockIds],
       d \in [NonDead -> 0 .. MaxLoops], start \in {entry, deadBlock} :
        /\ basicBlocks = Ascending(0, NumBlocks - 1)
        /\ thenb = [b \in BlockIds |-> IF b = deadBlock THEN deadBlock ELSE t[b]]
        /\ elseb = [b \in BlockIds |-> IF b = deadBlock THEN deadBlock ELSE e[b]]
        /\ cond = [b \in BlockIds |-> IF b = deadBlock THEN NoVariable ELSE plainCond]
        /\ exprs = [b \in BlockIds |-> IF b = deadBlock THEN <<>> ELSE <<OwnBinding(b)>>]
        /\ backEdges = [b \in BlockIds |-> SortedParents(b, thenb, elseb, 0)]
        /\ outerLoops = [b \in BlockIds |-> IF b = deadBlock THEN 0 ELSE d[b]]
        /\ flags = [b \in BlockIds |-> {}]
        /\ args = [b \in BlockIds |-> <<>>]
        /\ forwardsTopoSort = FreshTarget(NumBlocks)
        /\ backwardsTopoSort = FreshTarget(NumBlocks)
        /\ reads = EmptyTable
        /\ writes = EmptyTable
        /\ NoScratch
        /\ NoAnalysis
        /\ pc = "simplified"
        /\ it = 1
        /\ changed = FALSE
        /\ removed = {}
        /\ last = "return"
        /\ applied = {}
        /\ tick = FALSE
        /\ nFwd = 0
        /\ nBwd = 0
        /\ bwdStart = start

TopoFrame ==
    UNCHANGED <<basicBlocks, thenb, elseb, cond, exprs, backEdges, outerLoops, args,
                reads, writes, it, changed, removed, applied, tick, bwdStart,
                reads_by_block, writes_by_block, upper_bounds1, upper_bounds2,
                minLoops, maxLoopWrite, outAliases,
                seeds, lookups>>

\* nFwd = topoSortFwd(forwardsTopoSort, 0, cfg.entry())
RunTopoSortFwd ==
    /\ pc = "simplified"
    /\ LET r == TopoSortFwd(TopoState(Len(basicBlocks), VisitedFwd), entry)
       IN  /\ forwardsTopoSort' = r.target
           /\ nFwd' = r.nextFree
           /\ flags' = [b \in BlockIds |->
                          IF b \in r.visited
                          THEN flags[b] \cup {"FORWARD_TOPO_SORT_VISITED"}
                          ELSE flags[b]]
    /\ pc' = "sortedFwd"
    /\ last' = "topoSortFwd"
    /\ UNCHANGED <<backwardsTopoSort, nBwd>>
    /\ TopoFrame

\* nBwd = topoSortBwd(backwardsTopoSort, 0, bwdStart)
RunTopoSortBwd ==
    /\ pc = "sortedFwd"
    /\ LET r == TopoSortBwd(TopoState(Len(basicBlocks), VisitedBwd), bwdStart)
       IN  /\ backwardsTopoSort' = r.target
           /\ nBwd' = r.nextFree
           /\ flags' = [b \in BlockIds |->
                          IF b \in r.visited
                          THEN flags[b] \cup {"BACKWARD_TOPO_SORT_VISITED"}
                          ELSE flags[b]]
    /\ pc' = "sortedBwd"
    /\ last' = "topoSortBwd"
    /\ UNCHANGED <<forwardsTopoSort, nFwd>>
    /\ TopoFrame

\* markLoopHeaders
MarkLoopHeadersAt(at, to) ==
    /\ pc = at
    /\ flags' = [b \in BlockIds |->
                   IF b \in Live /\ IsLoopHeader(b)
                   THEN flags[b] \cup {"LOOP_HEADER"}
                   ELSE flags[b]]
    /\ pc' = to
    /\ last' = "markLoopHeaders"
    /\ UNCHANGED <<forwardsTopoSort, backwardsTopoSort, nFwd, nBwd>>
    /\ TopoFrame

\* markLoopHeaders, run after the two topo-sorts
MarkLoopHeaders == MarkLoopHeadersAt("sortedBwd", "marked")

NextTopoSort ==
    \/ RunTopoSortFwd
    \/ RunTopoSortBwd
    \/ MarkLoopHeaders

SpecTopoSort == InitTopoSort /\ [][NextTopoSort]_vars

\* The index of block b in the first n entries of a topo sort (0: not there)
IndexIn(s, n, b) == IF \E i \in 1 .. n : s[i] = b
                    THEN CHOOSE i \in 1 .. n : s[i] = b
                    ELSE 0

FwdDone == pc \in {"sortedFwd", "sortedBwd", "marked"}

\* C7: topoSortFwd from entry writes exactly the blocks reachable from entry
\* into target[0..n), each once, returns n, and writes nothing else.
C7_FwdExactlyReachable ==
    FwdDone =>
        /\ nFwd = Cardinality(ReachableFrom({entry}))
        /\ {forwardsTopoSort[i] : i \in 1 .. nFwd} = ReachableFrom({entry})
        /\ \A i, j \in 1 .. nFwd : forwardsTopoSort[i] = forwardsTopoSort[j] => i = j
        /\ \A i \in DOMAIN forwardsTopoSort : i > nFwd => forwardsTopoSort[i] = nullBlock

\* the sort has run on a CFG with a cycle among the reachable blocks and a
\* block that is not reachable from entry
C7_Witness ==
    /\ FwdDone
    /\ nFwd >= 3
    /\ \E b \in Live : b \notin ReachableFrom({entry})
    /\ \E b \in ReachableFrom({entry}) \ {entry} : entry \in ReachableFrom({b})

\* The blocks reachable from entry along paths that do not pass through a
RECURSIVE ReachableAvoiding(_, _)
ReachableAvoiding(S, a) ==
    LET T == (S \cup {thenb[b] : b \in S} \cup {elseb[b] : b \in S}) \ {a}
    IN  IF T = S THEN S ELSE ReachableAvoiding(T, a)

\* Every path from entry to b passes through a
Dominates(a, b) ==
    /\ a /= b
    /\ b \in ReachableFrom({entry})
    /\ b \notin ReachableAvoiding({entry} \ {a}, a)

\* C8: in the array topoSortFwd produces, a block that dominates another one
\* is at a higher index.
C8_DominatorAfter ==
    FwdDone =>
        \A a, b \in BlockIds :
            Dominates(a, b) =>
                IndexIn(forwardsTopoSort, nFwd, a) > IndexIn(forwardsTopoSort, nFwd, b)

\* the sort has run on a CFG in which a block other than entry dominates
\* another one inside a cycle
C8_Witness ==
    /\ FwdDone
    /\ \E a, b \in BlockIds \ {entry} :
        /\ Dominates(a, b)
        /\ a \in ReachableFrom({b})
        /\ IndexIn(forwardsTopoSort, nFwd, b) > 0

\* The CFG is one simplify returns unchanged: the sanity check passes, no rule
\* applies to any block and the back edges are sorted by id without duplicates
IsSimplified ==
    /\ SanityCheckPasses(backEdges)
    /\ \A bb \in Live :
        /\ ~R1Applies(bb) /\ ~R3aApplies(bb) /\ ~R3bApplies(bb)
        /\ ~R4Applies(bb) /\ ~R5Applies(bb)
        /\ backEdges[bb] = Canonical(backEdges[bb])

\* C9: in the array topoSortBwd produces over a simplified CFG, every block h
\* flagged LOOP_HEADER has its predecessors of lower outerLoops at lower
\* indices and its other predecessors of the same or higher outerLoops at
\* higher indices.
C9_LoopHeaderEmission ==
    (pc = "marked" /\ IsSimplified) =>
        \A h \in Live :
            ("LOOP_HEADER" \in flags[h] /\ IndexIn(backwardsTopoSort, nBwd, h) > 0) =>
                \A k \in DOMAIN backEdges[h] :
                    LET p == backEdges[h][k]
                    IN  /\ outerLoops[p] < outerLoops[h] =>
                              IndexIn(backwardsTopoSort, nBwd, p)
                                  < IndexIn(backwardsTopoSort, nBwd, h)
                        /\ (p /= h /\ outerLoops[p] >= outerLoops[h]) =>
                              IndexIn(backwardsTopoSort, nBwd, p)
                                  > IndexIn(backwardsTopoSort, nBwd, h)

\* ------------------------------------------------ fillInBlockArguments
\* How many blocks of an input CFG mention the variable the blocks share.
MaxUses == 2

\* A source-level variable that several blocks may read and write
sharedVar == plainCond + NumBlocks + 1

\* What a block of an input CFG does with sharedVar
Kinds == {"none", "write", "read", "readWrite", "writeRead", "condRead"}

CopyOfShared(b) == Binding(plainCond + 1 + b, "Ident", <<sharedVar>>)
WriteShared == Binding(sharedVar, "IntLit", <<>>)
\* The entry block sets the variable the conditional blocks branch on
WriteCond == Binding(plainCond, "BoolLit", <<>>)

KindExprs(b, k) ==
    CASE k = "write" -> <<WriteShared>>
      [] k = "read" -> <<CopyOfShared(b)>>
      [] k = "readWrite" -> <<CopyOfShared(b), WriteShared>>
      [] k = "writeRead" -> <<WriteShared, CopyOfShared(b)>>
      [] OTHER -> <<OwnBinding(b)>>

\* An unconditional jump has no exit condition
KindCond(b, k) ==
    IF thenb[b] = elseb[b] THEN NoVariable
    ELSE IF k = "condRead" THEN sharedVar ELSE plainCond

\* The variables the bindings and the exit condition of block b read, and
\* the variables its bindings write
ReadsOf(b) ==
    UNION {Range(exprs[b][i].ops) : i \in DOMAIN exprs[b]}
        \cup (IF cond[b] /= NoVariable THEN {cond[b]} ELSE {})
WritesOf(b) == {exprs[b][i].bind : i \in DOMAIN exprs[b]}

\* CFG::ReadsAndWrites of the CFG: variable -> the blocks reading (writing) it
ReadsTable ==
    [x \in UNION {ReadsOf(b) : b \in Live} |-> {b \in Live : x \in ReadsOf(b)}]
WritesTable ==
    [x \in UNION {WritesOf(b) : b \in Live} |-> {b \in Live : x \in WritesOf(b)}]

\* std::vector::resize(count): the first n entries of a topo-sort array
Resized(r) == SubSeq(r.target, 1, r.nextFree)

\* The CFG simplify hands on, with the tables of its reads and writes: a
\* simplified CFG that no jump enters at the entry block, whose blocks all
\* hold bindings, at most MaxUses of them mentioning sharedVar, the entry
\* block writing the exit condition of the conditional ones; neither
\* topo-sort is made yet
InitArgs ==
    \E t \in [NonDead -> BlockIds \ {entry}], e \in [NonDead -> BlockIds \ {entry}] :
        /\ basicBlocks = Ascending(0, NumBlocks - 1)
        /\ thenb = [b \in BlockIds |-> IF b = deadBlock THEN deadBlock ELSE t[b]]
        /\ elseb = [b \in BlockIds |-> IF b = deadBlock THEN deadBlock ELSE e[b]]
        /\ backEdges = [b \in BlockIds |-> SortedParents(b, thenb, elseb, 0)]
        /\ \A bb \in NonDead : ~R1Applies(bb) /\ ~R3aApplies(bb)
        /\ \E k \in [NonDead -> Kinds] :
            /\ Cardinality({b \in NonDead : k[b] /= "none"}) <= MaxUses
            /\ {b \in NonDead : k[b] = "condRead" /\ t[b] = e[b]} = {}
            /\ exprs = [b \in BlockIds |->
                          IF b = deadBlock THEN <<>>
                          ELSE IF b = entry THEN <<WriteCond>> \o KindExprs(b, k[b])
                          ELSE KindExprs(b, k[b])]
            /\ cond = [b \in BlockIds |->
                         IF b = deadBlock THEN NoVariable ELSE KindCond(b, k[b])]
        /\ IsSimplified = TRUE
        /\ outerLoops = [b \in BlockIds |-> 0]
        /\ flags = [b \in BlockIds |-> {}]
        /\ forwardsTopoSort = <<>>
        /\ backwardsTopoSort = <<>>
        /\ nFwd = 0
        /\ nBwd = 0
        /\ args = [b \in BlockIds |-> <<>>]
        /\ reads = ReadsTable
        /\ writes = WritesTable
        /\ NoScratch
        /\ NoAnalysis
        /\ pc = "sort"
        /\ it = 1
        /\ changed = FALSE
        /\ removed = {}
        /\ last = "simplify"
        /\ applied = {}
        /\ tick = FALSE
        /\ bwdStart = deadBlock

\* Both topo-sorts are made, forwards from entry and backwards from deadBlock,
\* each in a vector of basicBlocks.size() elements then cut to the count the
\* sort returned
FillInTopoSortsTo(to) ==
    /\ pc = "sort"
    /\ LET f == TopoSortFwd(TopoState(Len(basicBlocks), VisitedFwd), entry)
           w == TopoSortBwd(TopoState(Len(basicBlocks), VisitedBwd), bwdStart)
       IN  /\ forwardsTopoSort' = Resized(f)
           /\ backwardsTopoSort' = Resized(w)
           /\ nFwd' = f.nextFree
           /\ nBwd' = w.nextFree
           /\ flags' = [b \in BlockIds |->
                          flags[b]
                          \cup (IF b \in f.visited
                                THEN {"FORWARD_TOPO_SORT_VISITED"} ELSE {})
                          \cup (IF b \in w.visited
                                THEN {"BACKWARD_TOPO_SORT_VISITED"} ELSE {})]
    /\ pc' = to
    /\ last' = "topoSort"
    /\ UNCHANGED <<basicBlocks, thenb, elseb, cond, exprs, backEdges, outerLoops,
                   args, reads, writes, reads_by_block, writes_by_block,
                   upper_bounds1, upper_bounds2, it, changed, removed, applied,
                   tick, bwdStart, minLoops, maxLoopWrite, outAliases,
                seeds, lookups>>

\* The topo-sorts as made for fillInBlockArguments
FillInTopoSorts == FillInTopoSortsTo("fill")

ArgsFrame ==
    UNCHANGED <<basicBlocks, thenb, elseb, cond, exprs, backEdges, outerLoops, flags,
                forwardsTopoSort, backwardsTopoSort, it, removed, applied, tick,
                nFwd, nBwd, bwdStart, minLoops, maxLoopWrite, outAliases,
                seeds, lookups>>

\* The indices of an array of cfg.basicBlocks.size() elements
ScratchIds == 0 .. (Len(basicBlocks) - 1)

\* The ids at which fillInBlockArguments indexes its scratch arrays: of the
\* blocks of the tables and of the blocks of the two topo-sorts
IndexedIds ==
    UNION {reads[x] : x \in DOMAIN reads} \cup UNION {writes[x] : x \in DOMAIN writes}
        \cup Range(forwardsTopoSort) \cup Range(backwardsTopoSort)

\* map[x] of a std::unordered_map: the set at key x, empty when the key is new
At(table, x) == IF x \in DOMAIN table THEN table[x] ELSE {}

\* (mutant: no variable is taken for one that never escapes its block)
AlwaysEscapes(rds, wts) == FALSE

\* rds.second.size() == 1 && wts.size() == 1 && the one block is the same
NeverEscapes(rds, wts) ==
    Cardinality(rds) = 1 /\ Cardinality(wts) = 1 /\ rds = wts

\* The first loop, over RnW.reads; RnW.writes[rds.first] adds the key to
\* writes.  The pair (reads, writes) the loop leaves.
ClearedReads ==
    [x \in DOMAIN reads |->
        IF NeverEscapes(reads[x], At(writes, x)) \/ At(writes, x) = {}
        THEN {} ELSE reads[x]]
WritesAfterReads ==
    [x \in DOMAIN writes \cup DOMAIN reads |->
        IF x \in DOMAIN reads /\ NeverEscapes(reads[x], At(writes, x))
        THEN {} ELSE At(writes, x)]

\* The second loop, over RnW.writes; RnW.reads[wts.first] adds the key to
\* reads.
ReadsAfterWrites ==
    [x \in DOMAIN ClearedReads \cup DOMAIN WritesAfterReads |-> At(ClearedReads, x)]
ClearedWrites ==
    [x \in DOMAIN WritesAfterReads |->
        IF ReadsAfterWrites[x] = {} THEN {} ELSE WritesAfterReads[x]]

\* Lines 287-313: the scratch arrays are made and the tables preprocessed
PreprocessTables ==
    /\ pc = "fill"
    /\ IndexedIds \subseteq ScratchIds
    /\ reads' = ReadsAfterWrites
    /\ writes' = ClearedWrites
    /\ reads_by_block' =
         [i \in ScratchIds |-> {x \in DOMAIN ClearedWrites : i \in ReadsAfterWrites[x]}]
    /\ writes_by_block' =
         [i \in ScratchIds |-> {x \in DOMAIN ClearedWrites : i \in ClearedWrites[x]}]
    /\ upper_bounds1' = [i \in ScratchIds |-> {}]
    /\ upper_bounds2' = [i \in ScratchIds |-> {}]
    /\ changed' = TRUE
    /\ pc' = "bounds1"
    /\ last' = "preprocess"
    /\ UNCHANGED args
    /\ ArgsFrame

\* One run of the for loop over cfg.forwardsTopoSort, from index i on, with
\* ub for upper_bounds1 (a set inserted into itself gains nothing)
RECURSIVE SweepForwards(_, _)
SweepForwards(ub, i) ==
    IF i > Len(forwardsTopoSort) THEN ub
    ELSE LET bb == forwardsTopoSort[i]
             own == ub[bb] \cup reads_by_block[bb]
             th == IF thenb[bb] /= deadBlock
                   THEN own \cup (IF thenb[bb] = bb THEN own ELSE ub[thenb[bb]])
                   ELSE own
             el == IF elseb[bb] /= deadBlock
                   THEN th \cup (IF elseb[bb] = bb THEN th ELSE ub[elseb[bb]])
                   ELSE th
         IN  SweepForwards([ub EXCEPT ![bb] = el], i + 1)

\* One turn of the first while (changed) loop
UpperBounds1 ==
    /\ pc = "bounds1"
    /\ upper_bounds1' = SweepForwards(upper_bounds1, 1)
    /\ changed' = (upper_bounds1' /= upper_bounds1)
    /\ pc' = IF changed' THEN "bounds1" ELSE "bounds2"
    /\ last' = "upper_bounds1"
    /\ UNCHANGED <<reads, writes, reads_by_block, writes_by_block, upper_bounds2, args>>
    /\ ArgsFrame

\* upper_bounds2[bb] after the sets of the back edges of bb from index k on
\* have been inserted into it
RECURSIVE InsertEdges(_, _, _)
InsertEdges(ub, bb, k) ==
    IF k > Len(backEdges[bb]) THEN ub
    ELSE LET edge == backEdges[bb][k]
         IN  InsertEdges(IF edge /= deadBlock
                         THEN [ub EXCEPT ![bb] = @ \cup ub[edge]]
                         ELSE ub,
                         bb, k + 1)

\* (mutant: the sets of the back edges are not inserted)
RECURSIVE SweepBackwardsOwnWrites(_, _)
SweepBackwardsOwnWrites(ub, i) ==
    IF i > Len(backwardsTopoSort) THEN ub
    ELSE LET bb == backwardsTopoSort[i]
         IN  SweepBackwardsOwnWrites(
                 [ub EXCEPT ![bb] = @ \cup writes_by_block[bb]], i + 1)

\* One run of the for loop over cfg.backwardsTopoSort, from index i on
RECURSIVE SweepBackwards(_, _)
SweepBackwards(ub, i) ==
    IF i > Len(backwardsTopoSort) THEN ub
    ELSE LET bb == backwardsTopoSort[i]
         IN  SweepBackwards(
                 InsertEdges([ub EXCEPT ![bb] = @ \cup writes_by_block[bb]], bb, 1),
                 i + 1)

\* One turn of the second while (changed) loop
UpperBounds2 ==
    /\ pc = "bounds2"
    /\ upper_bounds2' = SweepBackwards(upper_bounds2, 1)
    /\ changed' = (upper_bounds2' /= upper_bounds2)
    /\ pc' = IF changed' THEN "bounds2" ELSE "combine"
    /\ last' = "upper_bounds2"
    /\ UNCHANGED <<reads, writes, reads_by_block, writes_by_block, upper_bounds1, args>>
    /\ ArgsFrame

\* The orders in which iterating a std::unordered_set may yield its elements
RECURSIVE Enumerations(_)
Enumerations(S) ==
    IF S = {} THEN {<<>>}
    ELSE UNION {{<<x>> \o rest : rest \in Enumerations(S \ {x})} : x \in S}

\* (mutant: args is left in the order the elements were pushed)
Unsorted(s) == s

\* std::sort of args by name._id
RECURSIVE SortByName(_)
SortByName(s) ==
    IF s = <<>> THEN <<>>
    ELSE LET rest == SortByName(Tail(s))
             lower == SelectSeq(rest, LAMBDA y : y < Head(s))
             upper == SelectSeq(rest, LAMBDA y : ~(y < Head(s)))
         IN  lower \o <<Head(s)>> \o upper

\* What the push_back loops may leave in the args of the blocks with ids
\* below n, before the sort: the elements of upper_bounds1 found in
\* upper_bounds2, in the order the iteration yields them
RECURSIVE PushedArgs(_)
PushedArgs(n) ==
    IF n = 0 THEN {[i \in {} |-> <<>>]}
    ELSE {[i \in 0 .. (n - 1) |-> IF i = n - 1 THEN s ELSE f[i]] :
             f \in PushedArgs(n - 1),
             s \in Enumerations(upper_bounds1[n - 1] \cap upper_bounds2[n - 1])}

\* Combine two upper bounds
CombineBounds ==
    /\ pc = "combine"
    /\ \E pushed \in PushedArgs(Len(basicBlocks)) :
        args' = [b \in BlockIds |->
                   IF b \in Live THEN SortByName(pushed[b]) ELSE args[b]]
    /\ pc' = "filled"
    /\ last' = "combine"
    /\ UNCHANGED <<reads, writes, reads_by_block, writes_by_block,
                   upper_bounds1, upper_bounds2, changed>>
    /\ ArgsFrame

NextArgs ==
    \/ FillInTopoSorts
    \/ PreprocessTables
    \/ UpperBounds1
    \/ UpperBounds2
    \/ CombineBounds

SpecArgs == InitArgs /\ [][NextArgs]_vars

\* The variables block b reads, in a binding or in its exit condition, at a
\* point no binding of b writing them precedes
UpwardExposed(b) ==
    {x \in ReadsOf(b) :
        \/ \E i \in DOMAIN exprs[b] :
              /\ x \in Range(exprs[b][i].ops)
              /\ \A j \in 1 .. (i - 1) : exprs[b][j].bind /= x
        \/ x = cond[b] /\ x \notin WritesOf(b)}

RECURSIVE Upstream(_)
Upstream(S) ==
    LET T == S \cup UNION {Range(backEdges[b]) : b \in S}
    IN  IF T = S THEN S ELSE Upstream(T)

Downstream(b) == ReachableAvoiding({b}, deadBlock) \cup {b}

\* C11: after fillInBlockArguments the args of every block b of both
\* topo-sorts are in strictly ascending order of name id (no duplicates) and
\* hold x exactly when, in the preprocessed tables, x is written in b or a
\* block upstream of b and read in b or a block downstream of b.
C11_ArgsExactlyBoundsMet ==
    pc = "filled" =>
        \A b \in Live :
            (Found(forwardsTopoSort, b) /\ Found(backwardsTopoSort, b)) =>
                /\ \A i, j \in DOMAIN args[b] : i < j => args[b][i] < args[b][j]
                /\ Range(args[b]) =
                     {x \in DOMAIN reads \cap DOMAIN writes :
                         /\ \E w \in Upstream({b}) : w \in writes[x]
                         /\ \E r \in Downstream(b) : r \in reads[x]}

\* fillInBlockArguments has given a block two arguments, one of them written
\* in another block upstream and read in a third block downstream only
C11_Witness ==
    /\ pc = "filled"
    /\ \E b \in Live :
        /\ Len(args[b]) = 2
        /\ sharedVar \notin ReadsOf(b) \cup WritesOf(b)
        /\ Found(args[b], sharedVar)

\* The variables the bindings and exit conditions of the CFG mention
Mentioned == DOMAIN ReadsTable \cup DOMAIN WritesTable

\* C15: a variable that the tables handed to fillInBlockArguments show read
\* in exactly one block and written in exactly that block, or read nowhere,
\* or written nowhere, is in the args of no block.
C15_LocalVariablesInNoArgs ==
    pc = "filled" =>
        \A x \in Mentioned :
            (\/ \E b \in Live : At(ReadsTable, x) = {b} /\ At(WritesTable, x) = {b}
             \/ At(ReadsTable, x) = {}
             \/ At(WritesTable, x) = {})
            => \A b \in BlockIds : ~Found(args[b], x)

\* fillInBlockArguments has run on a CFG where one block of a loop both reads
\* and then writes a variable no other block mentions, while another variable
\* did become an argument
C15_Witness ==
    /\ pc = "filled"
    /\ \E b \in Live :
        /\ At(ReadsTable, sharedVar) = {b}
        /\ At(WritesTable, sharedVar) = {b}
        /\ exprs[b][Len(exprs[b])] = WriteShared
        /\ thenb[b] = b
    /\ \E c \in Live : args[c] /= <<>>

\* C16: markLoopHeaders sets LOOP_HEADER on a block (the flag being clear
\* before) exactly when one of the blocks of its backEdges has a lower
\* outerLoops, and changes no other flag and no other field of any block.
C16_LoopHeaderExactly ==
    [][(pc = "sortedBwd" /\ pc' = "marked") =>
          /\ \A b \in Live :
               /\ "LOOP_HEADER" \notin flags[b]
               /\ "LOOP_HEADER" \in flags'[b] <=>
                     \E p \in Range(backEdges[b]) : outerLoops[p] < outerLoops[b]
               /\ flags'[b] \ {"LOOP_HEADER"} = flags[b]
          /\ UNCHANGED <<basicBlocks, thenb, elseb, cond, exprs, backEdges,
                         outerLoops, args, forwardsTopoSort, backwardsTopoSort>>]_vars

\* markLoopHeaders has flagged a block whose first back edge comes from a
\* block of its own depth, and has left a block with back edges unflagged
C16_Witness ==
    /\ pc = "marked"
    /\ \E b \in Live :
        /\ "LOOP_HEADER" \in flags[b]
        /\ "BACKWARD_TOPO_SORT_VISITED" \in flags[b]
        /\ outerLoops[backEdges[b][1]] = outerLoops[b]
    /\ \E b \in Live : backEdges[b] /= <<>> /\ "LOOP_HEADER" \notin flags[b]

\* The exit of block b changes in this step
BexitChanges(b) ==
    thenb'[b] /= thenb[b] \/ elseb'[b] /= elseb[b] \/ cond'[b] /= cond[b]

\* C20: no step of simplify changes the exprs or the bexit of entry or of
\* deadBlock, so that they are unchanged on return.
C20_EntryAndDeadUnchanged ==
    [][\A b \in {entry, deadBlock} : exprs'[b] = exprs[b] /\ ~BexitChanges(b)]_vars

\* C20, amended: only the removal of a block and the sorting of back edges
\* are kept from entry and deadBlock.  No step of simplify changes the exprs
\* or the bexit of deadBlock or takes entry out of basicBlocks; the bexit of
\* entry changes only by a squash or shortcut step taken at entry, and its
\* exprs only by a squash.
C20_DeadUnchangedEntryKept ==
    [][/\ exprs'[deadBlock] = exprs[deadBlock] /\ ~BexitChanges(deadBlock)
       /\ Found(basicBlocks', entry)
       /\ BexitChanges(entry) => CurBB = entry /\ last' \in {"R3a", "R3b", "R4", "R5"}
       /\ exprs'[entry] /= exprs[entry] => last' = "R3a"]_vars

\* simplify has just squashed into entry its only successor, bindings and
\* exit
C20_Witness ==
    /\ pc = "simplify"
    /\ last = "R3a"
    /\ CurBB = entry
    /\ Len(exprs[entry]) = 2
    /\ Found(basicBlocks, deadBlock)

\* ------------------------------ computeMinMaxLoops and removeDeadAssigns
\* Variables of the input programs: three temporaries the builder made up
\* and the alias of a global
tempA == sharedVar + 1
tempB == sharedVar + 2
tempC == sharedVar + 3
globalAlias == sharedVar + 4

\* LocalVariable::isSyntheticTemporary, LocalVariable::isAliasForGlobal
IsSyntheticTemporary(what) == what \in {tempA, tempB, tempC}
IsAliasForGlobal(what) == what = globalAlias

\* What the bindings of an input block do
Programs ==
    {"own", "chain", "copy", "copy2", "use", "reuse", "redef", "ret", "global", "test"}

\* The bindings of block b under program p; "chain" is a = x; b = a; c = b;
\* send(c), "reuse" is a = send(x); send(a)
ProgramExprs(b, p) ==
    CASE p = "chain" -> <<Binding(tempA, "Ident", <<sharedVar>>),
                          Binding(tempB, "Ident", <<tempA>>),
                          Binding(tempC, "Ident", <<tempB>>),
                          Binding(plainCond + 1 + b, "Send", <<tempC>>)>>
      [] p = "copy" -> <<Binding(tempA, "Ident", <<sharedVar>>)>>
      [] p = "copy2" -> <<Binding(tempB, "Ident", <<tempA>>)>>
      [] p = "use" -> <<Binding(plainCond + 1 + b, "Send", <<tempA, tempB>>)>>
      [] p = "reuse" -> <<Binding(tempA, "Send", <<sharedVar>>),
                          Binding(plainCond + 1 + b, "Send", <<tempA>>)>>
      [] p = "redef" -> <<WriteShared>>
      [] p = "ret" -> <<Binding(plainCond + 1 + b, "Ident", <<sharedVar>>),
                        Binding(plainCond + 1 + b, "Return", <<plainCond + 1 + b>>)>>
      [] p = "global" -> <<Binding(globalAlias, "Ident", <<tempA>>),
                           OwnBinding(b),
                           Binding(plainCond + 1 + b, "Return", <<tempA>>)>>
      [] OTHER -> <<OwnBinding(b)>>

\* The exit condition of block b under program p
ProgramCond(b, p) ==
    IF thenb[b] = elseb[b] THEN NoVariable
    ELSE IF p = "test" THEN tempA ELSE plainCond

\* INT_MAX
IntMax == 2147483647

\* The CFG and the tables handed to computeMinMaxLoops: entry branches to
\* blocks 2 and 3, block 2 goes on to block 3, and block 3 branches back to
\* block 2 or leaves; the blocks are at any depth up to MaxLoops and at most
\* MaxUses of them hold other bindings than a literal
InitLastPasses ==
    \E k \in [NonDead -> Programs], d \in [NonDead -> 0 .. MaxLoops] :
        /\ Cardinality({b \in NonDead : k[b] /= "own"}) <= MaxUses
        /\ k[2] /= "test"
        /\ basicBlocks = Ascending(0, NumBlocks - 1)
        /\ thenb = [b \in BlockIds |-> IF b = deadBlock THEN deadBlock ELSE IF b = 3 THEN 2 ELSE IF b = 2 THEN 3 ELSE 2]
        /\ elseb = [b \in BlockIds |-> IF b = entry \/ b = 2 THEN 3 ELSE deadBlock]
        /\ backEdges = [b \in BlockIds |-> SortedParents(b, thenb, elseb, 0)]
        /\ exprs = [b \in BlockIds |->
                      IF b = deadBlock THEN <<>> ELSE ProgramExprs(b, k[b])]
        /\ cond = [b \in BlockIds |->
                     IF b = deadBlock THEN NoVariable ELSE ProgramCond(b, k[b])]
        /\ outerLoops = [b \in BlockIds |-> IF b = deadBlock THEN 0 ELSE d[b]]
        /\ flags = [b \in BlockIds |-> {}]
        /\ forwardsTopoSort = <<>>
        /\ backwardsTopoSort = <<>>
        /\ nFwd = 0
        /\ nBwd = 0
        /\ args = [b \in BlockIds |-> <<>>]
        /\ reads = ReadsTable
        /\ writes = WritesTable
        /\ NoScratch
        /\ NoAnalysis
        /\ pc = "dealiased"
        /\ it = 1
        /\ changed = FALSE
        /\ removed = {}
        /\ last = "findAllReadsAndWrites"
        /\ applied = {}
        /\ tick = FALSE
        /\ bwdStart = deadBlock

\* What computeMinMaxLoops and removeDeadAssigns leave alone
LastFrame ==
    UNCHANGED <<basicBlocks, thenb, elseb, cond, backEdges, outerLoops, flags, args,
                forwardsTopoSort, backwardsTopoSort, reads, writes, reads_by_block,
                writes_by_block, upper_bounds1, upper_bounds2, it, changed, removed,
                applied, tick, nFwd, nBwd, bwdStart, outAliases,
                seeds, lookups>>

\* (mutant: the insertion overwrites the value the key has)
InsertOverwriting(table, x, v) == v

\* map.insert({x, v}) then the mapped value: this will not overwrite an
\* existing value
InsertIfAbsent(table, x, v) == IF x \in DOMAIN table THEN table[x] ELSE v

\* min after the loop "if (min > bb->outerLoops) min = bb->outerLoops" over
\* the blocks of where, and max after the loop with max <
Lowered(min, where) ==
    LET depths == {min} \cup {outerLoops[bb] : bb \in where}
    IN  CHOOSE m \in depths : \A n \in depths : m <= n
Raised(max, where) ==
    LET depths == {max} \cup {outerLoops[bb] : bb \in where}
    IN  CHOOSE m \in depths : \A n \in depths : m >= n

\* cfg.minLoops after the loop over RnW.reads
MinLoopsOfReads ==
    [x \in DOMAIN minLoops \cup DOMAIN reads |->
        IF x \in DOMAIN reads
        THEN Lowered(InsertIfAbsent(minLoops, x, IntMax), reads[x])
        ELSE minLoops[x]]

\* computeMinMaxLoops
ComputeMinMaxLoops ==
    /\ pc = "dealiased"
    /\ minLoops' =
         [x \in DOMAIN MinLoopsOfReads \cup DOMAIN writes |->
             IF x \in DOMAIN writes
             THEN Lowered(InsertIfAbsent(MinLoopsOfReads, x, IntMax), writes[x])
             ELSE MinLoopsOfReads[x]]
    /\ maxLoopWrite' =
         [x \in DOMAIN maxLoopWrite \cup DOMAIN writes |->
             IF x \in DOMAIN writes
             THEN Raised(InsertIfAbsent(maxLoopWrite, x, 0), writes[x])
             ELSE maxLoopWrite[x]]
    /\ pc' = "loops"
    /\ last' = "computeMinMaxLoops"
    /\ UNCHANGED exprs
    /\ LastFrame

\* The instructions removeDeadAssigns lists as free of effects
PureInstructions ==
    {"Ident", "ArraySplat", "HashSplat", "BoolLit", "StringLit", "SymbolLit",
     "IntLit", "FloatLit", "Self", "LoadArg"}

\* (mutant: the alias of a global is tested like any other variable)
IsDeadAlsoForGlobal(bind) ==
    /\ bind.bind \notin DOMAIN reads
    /\ bind.type \in PureInstructions

\* The test removeDeadAssigns makes on a binding before erasing it
IsDead(bind) ==
    /\ ~IsAliasForGlobal(bind.bind)
    /\ bind.bind \notin DOMAIN reads
    /\ bind.type \in PureInstructions

\* removeDeadAssigns: one sweep over the bindings of every block
RemoveDeadAssigns ==
    /\ pc = "loops"
    /\ exprs' = [b \in BlockIds |->
                   IF b \in Live THEN SelectSeq(exprs[b], LAMBDA bind : ~IsDead(bind))
                   ELSE exprs[b]]
    /\ pc' = "done"
    /\ last' = "removeDeadAssigns"
    /\ UNCHANGED <<minLoops, maxLoopWrite>>
    /\ LastFrame

NextLastPasses ==
    \/ ComputeMinMaxLoops
    \/ RemoveDeadAssigns

SpecLastPasses == InitLastPasses /\ [][NextLastPasses]_vars

\* C19: after computeMinMaxLoops, minLoops[x] of every variable x with a
\* reading block is the least outerLoops of the blocks reading x (a write in
\* a shallower block does not lower it).
C19_MinLoopsOverReaders ==
    pc = "loops" =>
        \A x \in DOMAIN reads :
            reads[x] /= {} =>
                /\ \E b \in reads[x] : minLoops[x] = outerLoops[b]
                /\ \A b \in reads[x] : minLoops[x] <= outerLoops[b]

\* C19, amended: after computeMinMaxLoops, minLoops[x] of every variable x
\* with a reading block is the least outerLoops of the blocks reading or
\* writing x: the insertion for a written variable keeps the value the reads
\* gave, and the walk over the writing blocks lowers it.
C19_MinLoopsOverReadersAndWriters ==
    pc = "loops" =>
        \A x \in DOMAIN reads :
            reads[x] /= {} =>
                /\ \E b \in reads[x] \cup At(writes, x) : minLoops[x] = outerLoops[b]
                /\ \A b \in reads[x] \cup At(writes, x) : minLoops[x] <= outerLoops[b]

\* computeMinMaxLoops has run on a variable read in a loop and written
\* outside of it, and on one written deeper than it is read
C19_Witness ==
    /\ pc = "loops"
    /\ \E x \in DOMAIN reads \cap DOMAIN writes :
        /\ \E r \in reads[x], w \in writes[x] :
            /\ outerLoops[w] < outerLoops[r]
            /\ \A q \in reads[x] : outerLoops[q] = outerLoops[r]
        /\ minLoops[x] < IntMax
    /\ \E y \in DOMAIN reads \cap DOMAIN writes :
        \E r \in reads[y] : \A w \in writes[y] : outerLoops[r] < outerLoops[w]

\* The bindings at the indices I of sequence s, in order
RECURSIVE Kept(_, _)
Kept(s, I) ==
    IF s = <<>> THEN <<>>
    ELSE Kept(SubSeq(s, 1, Len(s) - 1), I)
            \o (IF Len(s) \in I THEN <<s[Len(s)]>> ELSE <<>>)

\* C13: removeDeadAssigns erases a binding exactly when its variable is no
\* alias of a global and has no entry in reads and its instruction is one of
\* the ten listed; a Send or a Return is never erased, and the bindings kept
\* are in the order they were in.
C13_RemovesExactlyUnreadPure ==
    [][(pc = "loops" /\ pc' = "done") =>
          \A b \in Live :
              LET gone == {i \in DOMAIN exprs[b] :
                              /\ exprs[b][i].bind /= globalAlias
                              /\ exprs[b][i].bind \notin DOMAIN reads
                              /\ exprs[b][i].type \in
                                    {"Ident", "ArraySplat", "HashSplat", "BoolLit",
                                     "StringLit", "SymbolLit", "IntLit", "FloatLit",
                                     "Self", "LoadArg"}}
              IN  /\ exprs'[b] = Kept(exprs[b], DOMAIN exprs[b] \ gone)
                  /\ \A i \in gone : exprs[b][i].type \notin {"Send", "Return"}]_vars

\* removeDeadAssigns has erased an unread literal from between an unread
\* alias of a global and a Return, which it kept in their order, and has
\* kept a Send whose variable nothing reads
C13_Witness ==
    /\ pc = "done"
    /\ globalAlias \notin DOMAIN reads
    /\ \E b \in Live :
        /\ Len(exprs[b]) = 2
        /\ exprs[b][1].bind = globalAlias
        /\ exprs[b][2].type = "Return"
    /\ \E b \in Live :
        /\ exprs[b] /= <<>>
        /\ exprs[b][1].type = "Send"
        /\ exprs[b][1].bind \notin DOMAIN reads

\* ------------------------------------------------------------------ dealias
\* An unordered_map from LocalVariable to LocalVariable with no entry
NoAliases == [x \in {} |-> NoVariable]

\* (mutant: the alias is looked up for any variable)
MaybeDealiasAny(what, aliases) ==
    IF what \in DOMAIN aliases THEN aliases[what] ELSE what

\* maybeDealias
MaybeDealias(what, aliases) ==
    IF IsSyntheticTemporary(what)
    THEN IF what \in DOMAIN aliases THEN aliases[what] ELSE what
    ELSE what

\* current after the loop over other has erased from it every entry that
\* other lacks or maps to another variable
ErasedUnless(current, other) ==
    [k \in {k \in DOMAIN current : k \in DOMAIN other /\ other[k] = current[k]}
        |-> current[k]]

\* current after the loop over the back edges of bb from index k on; the map
\* of bb itself is current
RECURSIVE MeetParents(_, _, _, _)
MeetParents(out, bb, current, k) ==
    IF k > Len(backEdges[bb]) THEN current
    ELSE LET parent == backEdges[bb][k]
             other == IF parent = bb THEN current ELSE out[parent]
         IN  MeetParents(out, bb, ErasedUnless(current, other), k + 1)

\* (mutant: no record is invalidated)
NotInvalidated(current, v) == current

\* invalidate a stale record: the entries whose value is the variable bound
Invalidated(current, v) ==
    [k \in {k \in DOMAIN current : current[k] /= v} |-> current[k]]

\* (mutant: the alias recorded is the operand as it was before the turn)
RecordedAsWritten(bind, ops) == bind.ops[1]

\* record new aliases: current[bind.bind] = i->what
Recorded(bind, ops) == ops[1]

\* One turn of the loop over the bindings of a block: the binding and the
\* map it leaves
DealiasBinding(bind, current) ==
    LET first == IF bind.type = "Ident"
                 THEN <<MaybeDealias(bind.ops[1], current)>> ELSE bind.ops
        valid == Invalidated(current, bind.bind)
        ops == IF bind.type \in {"Ident", "Send", "Return"}
               THEN [i \in DOMAIN first |-> MaybeDealias(first[i], valid)]
               ELSE first
    IN  [bind |-> [bind EXCEPT !.ops = ops],
         lookups |-> IF bind.type = "Ident" THEN {current, valid}
                     ELSE IF bind.type \in {"Send", "Return"} THEN {valid} ELSE {},
         current |-> IF bind.type = "Ident"
                     THEN [k \in DOMAIN valid \cup {bind.bind} |->
                              IF k = bind.bind THEN Recorded(bind, ops) ELSE valid[k]]
                     ELSE valid]

\* The loop over the bindings es of a block, done the bindings of done and
\* lookups the maps looked up so far
RECURSIVE DealiasBindings(_, _, _, _)
DealiasBindings(es, done, current, maps) ==
    IF es = <<>> THEN [exprs |-> done, current |-> current, lookups |-> maps]
    ELSE LET r == DealiasBinding(Head(es), current)
         IN  DealiasBindings(Tail(es), Append(done, r.bind), r.current,
                             maps \cup r.lookups)

\* The loop of dealias over the blocks of order, st holding the bindings and
\* exit conditions of all blocks and outAliases
RECURSIVE DealiasBlocks(_, _)
DealiasBlocks(st, order) ==
    IF order = <<>> THEN st
    ELSE LET bb == Head(order)
             first == IF backEdges[bb] /= <<>> THEN st.out[backEdges[bb][1]]
                      ELSE st.out[bb]
             seed == MeetParents(st.out, bb, first, 1)
             r == DealiasBindings(st.exprs[bb], <<>>, seed, st.lookups)
         IN  IF bb = deadBlock THEN DealiasBlocks(st, Tail(order))
             ELSE DealiasBlocks(
                     [exprs |-> [st.exprs EXCEPT ![bb] = r.exprs],
                      cond |-> IF st.cond[bb] /= NoVariable
                               THEN [st.cond EXCEPT ![bb] = MaybeDealias(@, r.current)]
                               ELSE st.cond,
                      out |-> [st.out EXCEPT ![bb] = r.current],
                      seeds |-> [st.seeds EXCEPT ![bb] = seed],
                      lookups |-> IF st.cond[bb] /= NoVariable
                                  THEN r.lookups \cup {r.current} ELSE r.lookups],
                     Tail(order))

\* What dealias makes of the CFG: outAliases.resize(cfg.basicBlocks.size()),
\* then the loop over backwardsTopoSort
Dealiased ==
    DealiasBlocks([exprs |-> exprs, cond |-> cond,
                   out |-> [i \in ScratchIds |-> NoAliases],
                   seeds |-> [i \in ScratchIds |-> NoAliases],
                   lookups |-> {}],
                  backwardsTopoSort)

\* What dealias leaves alone
DealiasFrame ==
    UNCHANGED <<basicBlocks, thenb, elseb, backEdges, outerLoops, flags, args,
                forwardsTopoSort, backwardsTopoSort, reads, writes, reads_by_block,
                writes_by_block, upper_bounds1, upper_bounds2, it, changed, removed,
                applied, tick, nFwd, nBwd, bwdStart, minLoops, maxLoopWrite>>

\* dealias; outAliases is shown as it stands at the return
Dealias ==
    /\ pc = "filled"
    /\ exprs' = Dealiased.exprs
    /\ cond' = Dealiased.cond
    /\ outAliases' = Dealiased.out
    /\ seeds' = Dealiased.seeds
    /\ lookups' = Dealiased.lookups
    /\ pc' = "dealiased"
    /\ last' = "dealias"
    /\ DealiasFrame

\* dealias run once more on the CFG it has just returned
DealiasAgain ==
    /\ pc = "dealiased"
    /\ last = "dealias"
    /\ exprs' = Dealiased.exprs
    /\ cond' = Dealiased.cond
    /\ outAliases' = Dealiased.out
    /\ seeds' = Dealiased.seeds
    /\ lookups' = Dealiased.lookups
    /\ last' = "dealiasAgain"
    /\ UNCHANGED pc
    /\ DealiasFrame

\* ------------------------------------------------------------- the driver
\* The CFG simplify hands to the passes after it: simplified, with or without
\* block 2 erased from basicBlocks, entry jumping to the lowest other block
\* and block 3 leaving by its else exit, at most MaxUses blocks holding other
\* bindings than a literal
InitDriver ==
    \E gone \in {{}, {2}} :
    \E t \in [NonDead -> (BlockIds \ {entry}) \cup {nullBlock}],
       e \in [NonDead -> (BlockIds \ {entry}) \cup {nullBlock}] :
        /\ {b \in NonDead : (b \in gone) /= (t[b] = nullBlock)} = {}
        /\ {b \in NonDead : (b \in gone) /= (e[b] = nullBlock)} = {}
        /\ {b \in NonDead : t[b] \in gone \/ e[b] \in gone} = {}
        /\ t[entry] = (IF gone = {} THEN 2 ELSE 3)
        /\ e[3] = deadBlock
        /\ basicBlocks = SelectSeq(Ascending(0, NumBlocks - 1), LAMBDA b : b \notin gone)
        /\ thenb = [b \in BlockIds |-> IF b = deadBlock THEN deadBlock ELSE t[b]]
        /\ elseb = [b \in BlockIds |-> IF b = deadBlock THEN deadBlock ELSE e[b]]
        /\ backEdges = [b \in BlockIds |-> SortedParents(b, thenb, elseb, 0)]
        /\ {bb \in NonDead \ gone : R1Applies(bb) \/ R3aApplies(bb)} = {}
        /\ \E k \in [NonDead -> Programs] :
            /\ Cardinality({b \in NonDead : k[b] /= "own"}) <= MaxUses
            /\ {b \in NonDead : k[b] = "test" /\ t[b] = e[b]} = {}
            /\ {b \in gone : k[b] /= "own"} = {}
            /\ exprs = [b \in BlockIds |->
                          IF b = deadBlock \/ b \in gone THEN <<>>
                          ELSE ProgramExprs(b, k[b])]
            /\ cond = [b \in BlockIds |->
                         IF b = deadBlock \/ b \in gone THEN NoVariable
                         ELSE ProgramCond(b, k[b])]
        /\ outerLoops = [b \in BlockIds |-> 0]
        /\ flags = [b \in BlockIds |-> {}]
        /\ forwardsTopoSort = <<>>
        /\ backwardsTopoSort = <<>>
        /\ nFwd = 0
        /\ nBwd = 0
        /\ args = [b \in BlockIds |-> <<>>]
        /\ reads = EmptyTable
        /\ writes = EmptyTable
        /\ NoScratch
        /\ NoAnalysis
        /\ pc = "sort"
        /\ it = 1
        /\ changed = FALSE
        /\ removed = gone
        /\ last = "simplify"
        /\ applied = {}
        /\ tick = FALSE
        /\ bwdStart = deadBlock

\* The two topo-sorts and markLoopHeaders as the driver runs them
DriverTopoSorts == FillInTopoSortsTo("sorted")
DriverMarkLoopHeaders == MarkLoopHeadersAt("sorted", "headers")

\* What findAllReadsAndWrites leaves alone besides the bindings
TablesFrame ==
    UNCHANGED <<basicBlocks, thenb, elseb, backEdges, outerLoops,
                forwardsTopoSort, backwardsTopoSort, reads_by_block,
                writes_by_block, upper_bounds1, upper_bounds2, it, changed, removed,
                applied, tick, nFwd, nBwd, bwdStart>>

\* CFG::findAllReadsAndWrites
FindAllReadsAndWrites ==
    /\ pc = "headers"
    /\ reads' = ReadsTable
    /\ writes' = WritesTable
    /\ pc' = "fill"
    /\ last' = "findAllReadsAndWrites"
    /\ UNCHANGED <<exprs, cond, flags, outAliases, seeds, lookups, minLoops,
                   maxLoopWrite, args>>
    /\ TablesFrame

\* fillInBlockArguments indexes an array of basicBlocks.size() elements at an
\* id that is not below basicBlocks.size(): what follows is undefined, and
\* nothing of it is modelled
ScratchOverrun ==
    /\ pc = "fill"
    /\ ~(IndexedIds \subseteq ScratchIds)
    /\ reads_by_block' = [i \in ScratchIds |-> {}]
    /\ writes_by_block' = [i \in ScratchIds |-> {}]
    /\ upper_bounds1' = [i \in ScratchIds |-> {}]
    /\ upper_bounds2' = [i \in ScratchIds |-> {}]
    /\ pc' = "undefined"
    /\ last' = "overrun"
    /\ UNCHANGED <<reads, writes, changed, args>>
    /\ ArgsFrame

NextDriver ==
    \/ DriverTopoSorts
    \/ DriverMarkLoopHeaders
    \/ FindAllReadsAndWrites
    \/ PreprocessTables
    \/ ScratchOverrun
    \/ UpperBounds1
    \/ UpperBounds2
    \/ CombineBounds
    \/ Dealias
    \/ DealiasAgain
    \/ ComputeMinMaxLoops
    \/ RemoveDeadAssigns

SpecDriver == InitDriver /\ [][NextDriver]_vars

\* C12: dealias is idempotent: run a second time on the CFG it returned, it
\* changes no operand of any binding and no exit condition.
C12_DealiasIdempotent ==
    [][last' = "dealiasAgain" => exprs' = exprs /\ cond' = cond]_vars

\* dealias has run twice on a CFG where its first run replaced the operand
\* of a copy and of a Send and the exit condition of a later block
C12_Witness ==
    /\ last = "dealiasAgain"
    /\ \E b \in Live : \E i \in DOMAIN exprs[b] :
        /\ exprs[b][i] = Binding(tempB, "Ident", <<sharedVar>>)
        /\ i < Len(exprs[b])
        /\ exprs[b][Len(exprs[b])].type = "Send"
        /\ exprs[b][Len(exprs[b])].ops = <<sharedVar>>
    /\ \E b \in Live : cond[b] = sharedVar

\* C17: dealias replaces an operand or an exit condition only if it is a
\* synthetic temporary, and leaves the variable bound, the instruction and
\* the number and order of the bindings of every block as they were.
C17_OnlyTemporariesReplaced ==
    [][(pc = "filled" /\ pc' = "dealiased") =>
          \A b \in Live :
              /\ Len(exprs'[b]) = Len(exprs[b])
              /\ \A i \in DOMAIN exprs[b] :
                    /\ exprs'[b][i].bind = exprs[b][i].bind
                    /\ exprs'[b][i].type = exprs[b][i].type
                    /\ Len(exprs'[b][i].ops) = Len(exprs[b][i].ops)
                    /\ \A j \in DOMAIN exprs[b][i].ops :
                          exprs'[b][i].ops[j] /= exprs[b][i].ops[j]
                              => exprs[b][i].ops[j] \in {tempA, tempB, tempC}
              /\ cond'[b] /= cond[b] => cond[b] \in {tempA, tempB, tempC}]_vars

\* dealias has replaced a temporary by the variable it copies and has left
\* alone the operand of a Return, a plain variable bound by a copy earlier in
\* its block
C17_Witness ==
    /\ pc = "dealiased"
    /\ last = "dealias"
    /\ \E b \in Live :
        /\ Len(exprs[b]) = 2
        /\ exprs[b][1] = Binding(plainCond + 1 + b, "Ident", <<sharedVar>>)
        /\ exprs[b][2] = Binding(plainCond + 1 + b, "Return", <<plainCond + 1 + b>>)
    /\ \E b \in Live : \E i \in DOMAIN exprs[b] :
        exprs[b][i] = Binding(tempB, "Ident", <<sharedVar>>)

\* Block b ends with the send of the chain a = x; b = a; c = b; send(c), and
\* the tables show the three temporaries read and written in no other block
HoldsChainAlone(b) ==
    /\ exprs[b] /= <<>>
    /\ exprs[b][Len(exprs[b])].type = "Send"
    /\ Len(exprs[b][Len(exprs[b])].ops) = 1
    /\ \A x \in {tempA, tempB, tempC} : At(reads, x) \cup At(writes, x) \subseteq {b}

\* C14: when the passes have run in the driver's order on a block holding
\* a = x; b = a; c = b; send(c), the temporaries used nowhere else, the
\* operand of the send is x and the bindings of a and b are no longer in the
\* block.
C14_CopyChainCollapsed ==
    pc = "done" =>
        \A b \in Live :
            HoldsChainAlone(b) =>
                /\ exprs[b][Len(exprs[b])].ops = <<sharedVar>>
                /\ \A i \in DOMAIN exprs[b] : exprs[b][i].bind \notin {tempA, tempB}

\* C18: every scratch array indexed by block id is longer than every id it
\* is indexed at, also when simplify has erased blocks and the largest id is
\* not below the number of blocks.
C18_ScratchArraysHoldEveryId ==
    /\ upper_bounds1 /= <<>> =>
          \A id \in IndexedIds :
              /\ id \in DOMAIN reads_by_block /\ id \in DOMAIN writes_by_block
              /\ id \in DOMAIN upper_bounds1 /\ id \in DOMAIN upper_bounds2
    /\ outAliases /= <<>> =>
          \A bb \in Range(backwardsTopoSort) \ {deadBlock} :
              bb \in DOMAIN outAliases /\ Range(backEdges[bb]) \subseteq DOMAIN outAliases

\* The variables bound in the CFG for which RnW.reads.find succeeds
FoundInReads(table) ==
    {x \in UNION {WritesOf(b) : b \in Live} : x \in DOMAIN table}

\* C26: fillInBlockArguments adds no key to reads and no key to writes, so
\* that the variables for which removeDeadAssigns finds an entry in reads are
\* the same before and after it.
C26_NoKeyAdded ==
    [][(pc = "fill" /\ pc' = "bounds1") =>
          /\ DOMAIN reads' = DOMAIN reads
          /\ DOMAIN writes' = DOMAIN writes
          /\ FoundInReads(reads') = FoundInReads(reads)]_vars

\* C23: when simplify returns, the backEdges of every remaining block other
\* than entry and deadBlock are strictly increasing by block id.
C23_BackEdgesStrictlyIncreasing ==
    pc = "simplified" =>
        \A b \in Live \ {entry, deadBlock} :
            \A i, j \in DOMAIN backEdges[b] : i < j => backEdges[b][i] < backEdges[b][j]

\* simplify has returned after a squash or a shortcut pushed a back edge, and
\* a remaining block other than entry and deadBlock has two back edges
C23_Witness ==
    /\ pc = "simplified"
    /\ applied \cap {"R3a", "R3b", "R4", "R5"} /= {}
    /\ \E b \in Live \ {entry, deadBlock} : Len(backEdges[b]) >= 2

\* Block p stands before block b in backwardsTopoSort, the order of the loop
\* of dealias, and is not skipped by it
ProcessedBefore(p, b) ==
    /\ p /= deadBlock
    /\ \E i, j \in DOMAIN backwardsTopoSort :
        i < j /\ backwardsTopoSort[i] = p /\ backwardsTopoSort[j] = b

\* outAliases[p] as it stood when the loop of dealias came to block b
HeldWhenReached(p, b) == IF ProcessedBefore(p, b) THEN outAliases[p] ELSE NoAliases

\* An alias map as a set of (key, value) pairs
Pairs(m) == {<<k, m[k]>> : k \in DOMAIN m}

\* C21: the seed alias map of a block with back edges is the intersection, as
\* sets of (key, value) pairs, of the maps its predecessors hold when dealias
\* comes to it, a predecessor not yet processed holding the empty map.
C21_SeedIsMeetOfPredecessors ==
    pc = "dealiased" =>
        \A b \in Range(backwardsTopoSort) \ {deadBlock} :
            backEdges[b] /= <<>> =>
                Pairs(seeds[b]) =
                    {kv \in Pairs(HeldWhenReached(backEdges[b][1], b)) :
                        \A p \in Range(backEdges[b]) : kv \in Pairs(HeldWhenReached(p, b))}

\* Every LocalVariable of the model
LocalVariables == NoVariable .. globalAlias

\* C22: at every lookup dealias makes, looking up the result of maybeDealias
\* once more in the same map gives the same variable, for every variable: no
\* entry maps a temporary to another temporary that is a key with another
\* value.
C22_LookupIdempotent ==
    \A m \in lookups :
        /\ \A v \in LocalVariables :
              MaybeDealias(MaybeDealias(v, m), m) = MaybeDealias(v, m)
        /\ \A k \in DOMAIN m :
              (/\ IsSyntheticTemporary(k)
               /\ IsSyntheticTemporary(m[k])
               /\ m[k] /= k
               /\ m[k] \in DOMAIN m) => m[m[k]] = m[k]

\* dealias has looked up a map that holds b -> a, two temporaries, and, after
\* a was bound to a copy of x, a map that holds a -> x and no entry for b
C22_Witness ==
    /\ pc = "dealiased"
    /\ \E m \in lookups : tempB \in DOMAIN m /\ m[tempB] = tempA
    /\ \E m \in lookups :
        /\ tempA \in DOMAIN m
        /\ m[tempA] = sharedVar
        /\ tempB \notin DOMAIN m

\* A fact <<t, v>> says that t was last bound by a copy of v, directly or
\* through copies of copies, and that neither has been bound since. The facts
\* that stand after the binding bind when facts stood before it
AfterBinding(facts, bind) ==
    LET kept == {f \in facts : f[1] /= bind.bind /\ f[2] /= bind.bind}
    IN  IF bind.type = "Ident" /\ bind.ops[1] /= bind.bind
        THEN kept \cup {<<bind.bind, bind.ops[1]>>}
                  \cup {<<bind.bind, f[2]>> : f \in {g \in kept : g[1] = bind.ops[1]}}
        ELSE kept

\* The facts that stand before binding i of the bindings es of a block
\* entered with facts
RECURSIVE FactsBefore(_, _, _)
FactsBefore(es, i, facts) ==
    IF i <= 1 THEN facts
    ELSE AfterBinding(FactsBefore(es, i - 1, facts), es[i - 1])

\* The facts that stand on every edge into block b when facts stand at the
\* exit of every block: none at entry, which is entered from outside
FactsOnEntry(out, b) ==
    IF b = entry THEN {}
    ELSE {f \in LocalVariables \X LocalVariables :
            \A p \in Live : (thenb[p] = b \/ elseb[p] = b) => f \in out[p]}

\* The facts at the exit of every block on every path from entry: the
\* greatest solution, reached from out by going round the blocks
RECURSIVE FactsAtExit(_)
FactsAtExit(out) ==
    LET next == [b \in BlockIds |->
                    IF b \in Live
                    THEN FactsBefore(exprs[b], Len(exprs[b]) + 1, FactsOnEntry(out, b))
                    ELSE out[b]]
    IN  IF next = out THEN out ELSE FactsAtExit(next)

\* The facts that hold on every path from entry at the exit of every block
\* of the CFG
CopyFacts == FactsAtExit([b \in BlockIds |-> LocalVariables \X LocalVariables])

\* C24: dealias replaces a use of t by v, in a binding or an exit condition,
\* only where on every path from entry the last binding of t is a copy of v
\* and neither t nor v has been bound since.
C24_RewritesOnlyLiveCopies ==
    [][(pc = "filled" /\ pc' = "dealiased") =>
          \A b \in Live :
              /\ \A i \in DOMAIN exprs[b] : \A j \in DOMAIN exprs[b][i].ops :
                    exprs'[b][i].ops[j] /= exprs[b][i].ops[j] =>
                        <<exprs[b][i].ops[j], exprs'[b][i].ops[j]>>
                            \in FactsBefore(exprs[b], i, FactsOnEntry(CopyFacts, b))
              /\ cond'[b] /= cond[b] => <<cond[b], cond'[b]>> \in CopyFacts[b]]_vars

\* ------------------------------------------------- what a CFG executes
\* The runs of the CFG g = [thenb, elseb, cond, exprs] from binding i of
\* block b on, as sequences of events cut after k events: the bindings
\* executed, and for every exit that has two targets the condition evaluated
\* with the side taken. A run that goes through more blocks than there are
\* without an event stays in blocks without events, and ends there.
RECURSIVE RunsFrom(_, _, _, _, _)
RunsFrom(g, b, i, k, silent) ==
    IF k = 0 \/ silent > NumBlocks THEN {<<>>}
    ELSE IF i <= Len(g.exprs[b])
    THEN {<<g.exprs[b][i]>> \o r : r \in RunsFrom(g, b, i + 1, k - 1, 0)}
    ELSE IF g.thenb[b] = g.elseb[b]
    THEN RunsFrom(g, g.thenb[b], 1, k, silent + 1)
    ELSE {<<[cond |-> g.cond[b], taken |-> "thenb"]>> \o r :
             r \in RunsFrom(g, g.thenb[b], 1, k - 1, 0)}
         \cup {<<[cond |-> g.cond[b], taken |-> "elseb"]>> \o r :
                  r \in RunsFrom(g, g.elseb[b], 1, k - 1, 0)}

\* The runs from entry, cut after twice as many events as there are blocks
Runs(g) == RunsFrom(g, entry, 1, 2 * NumBlocks, 0)

\* C25: no step of simplify changes, on any path from entry, the sequence of
\* bindings executed and of conditions evaluated.
C25_StepsPreserveRuns ==
    [][pc = "simplify" =>
          Runs([thenb |-> thenb', elseb |-> elseb', cond |-> cond', exprs |-> exprs'])
              = Runs([thenb |-> thenb, elseb |-> elseb, cond |-> cond, exprs |-> exprs])]_vars

====
